---- MODULE Spec2Model ----
(***************************************************************************)
(* Model of the type inference engine of jsserver (inference.js, latest    *)
(* snapshot src/unnamed/part_002) and of the driver that threads a context *)
(* through the top-level statements of a program.                          *)
(*                                                                         *)
(* Types, expressions, substitutions and contexts are the JavaScript       *)
(* objects of the source, written as TLA+ records with the same field      *)
(* names.  A substitution and an environment are functions whose domain is *)
(* the set of keys of the JavaScript object.  The `throws: null` field of  *)
(* a Function type is never read by the engine and is left out.            *)
(*                                                                         *)
(* A JavaScript function that can throw is modelled by an operator that    *)
(* returns a record with a field ok: ok = TRUE carries the returned value, *)
(* ok = FALSE carries the thrown value (field err names its class).        *)
(***************************************************************************)
EXTENDS Integers, Sequences, FiniteSets, TLC

VARIABLES
  ctx,      \* the context the driver threads through the program
  trace,    \* the top-level statements inferred so far, with their outcome
  halted,   \* TRUE once an exception has left the driver
  args,     \* arguments of the engine function applied on its own
  out       \* its result (Pending until it has been applied)

vars == <<ctx, trace, halted, args, out>>

(***************************************************************************)
(* Bounds of the model.                                                    *)
(***************************************************************************)
MaxSteps == 3      \* top-level statements per program
MaxStack == 8      \* call-stack depth at which the runtime gives up
MaxLen == 2        \* parameters of a generated Function, members of a Union

(***************************************************************************)
(* Type constructors (typedefs TNamed, TVar, TUnion, TFun, Forall).        *)
(***************************************************************************)
Named(n) == [nodeType |-> "Named", name |-> n]
TVar(n) == [nodeType |-> "Var", name |-> n]
TUnion(ts) == [nodeType |-> "Union", types |-> ts]
TFun(from, to) == [nodeType |-> "Function", from |-> from, to |-> to]
Forall(qs, t) == [nodeType |-> "Forall", quantifiers |-> qs, type |-> t]

\* The empty object {} used as a substitution.
EmptySubst == <<>>

(***************************************************************************)
(* Thrown values.                                                          *)
(***************************************************************************)
TypeMismatchError(want, got) ==
  [ok |-> FALSE, err |-> "TypeMismatchError", want |-> want, got |-> got]
TypeInferenceError(e, loc) ==
  [ok |-> FALSE, err |-> "TypeInferenceError", want |-> e.want, got |-> e.got,
   loc |-> loc]
\* `throw "..."`: a bare string.
ThrowString(msg) == [ok |-> FALSE, err |-> "string", msg |-> msg]
\* The runtime's own errors: call stack exhausted, destructuring undefined.
RangeError == [ok |-> FALSE, err |-> "RangeError"]
TypeError == [ok |-> FALSE, err |-> "TypeError"]

\* The value of out before the function has been applied, and after.
Pending == [done |-> FALSE]
Done(res) == [done |-> TRUE, res |-> res]

\* A substitution returned normally by unify / varBind.
Ok(s) == [ok |-> TRUE, s |-> s]

(***************************************************************************)
(* Sequence helpers.                                                       *)
(***************************************************************************)
RECURSIVE SeqContains(_, _)
SeqContains(seq, x) ==
  IF seq = <<>> THEN FALSE
  ELSE Head(seq) = x \/ SeqContains(Tail(seq), x)

(***************************************************************************)
(* Free type variables.  A FreeVars object is modelled by the sequence of  *)
(* its keys in insertion order, which is the order Object.keys returns.    *)
(***************************************************************************)
RECURSIVE union(_, _)
union(a, b) ==
  IF b = <<>> THEN a
  ELSE union(IF SeqContains(a, Head(b)) THEN a ELSE Append(a, Head(b)), Tail(b))

difference(a, b) == SelectSeq(a, LAMBDA n : ~SeqContains(b, n))

RECURSIVE freeTypeVarsInType(_), freeTypeVarsInTypes(_)
freeTypeVarsInTypes(ts) ==
  IF ts = <<>> THEN <<>>
  ELSE union(freeTypeVarsInTypes(SubSeq(ts, 1, Len(ts) - 1)),
             freeTypeVarsInType(ts[Len(ts)]))

freeTypeVarsInType(t) ==
  CASE t.nodeType = "Named" -> <<>>
    [] t.nodeType = "Var" -> <<t.name>>
    [] t.nodeType = "Union" -> freeTypeVarsInTypes(t.types)
    [] t.nodeType = "Function" ->
         union(freeTypeVarsInTypes(t.from), freeTypeVarsInType(t.to))

freeTypeVarsInForall(t) ==
  difference(freeTypeVarsInType(t.type), t.quantifiers)

\* Only membership in the result is ever used (by difference), so the
\* result is a set.
freeTypeVarsInEnv(env) ==
  UNION { LET t == env[key]
              fv == IF t.nodeType = "Forall" THEN freeTypeVarsInForall(t)
                    ELSE freeTypeVarsInType(t)
          IN { fv[i] : i \in DOMAIN fv } : key \in DOMAIN env }

(***************************************************************************)
(* Substitutions.                                                          *)
(***************************************************************************)
RECURSIVE applySubstToType(_, _)
applySubstToType(subst, type) ==
  CASE type.nodeType = "Named" -> type
    [] type.nodeType = "Union" ->
         TUnion([i \in DOMAIN type.types |-> applySubstToType(subst, type.types[i])])
    [] type.nodeType = "Var" ->
         IF type.name \in DOMAIN subst THEN subst[type.name] ELSE type
    [] type.nodeType = "Function" ->
         TFun([i \in DOMAIN type.from |-> applySubstToType(subst, type.from[i])],
              applySubstToType(subst, type.to))

applySubstToForall(subst, type) ==
  LET bound == { type.quantifiers[i] : i \in DOMAIN type.quantifiers }
      substWithoutBound == [k \in (DOMAIN subst) \ bound |-> subst[k]]
  IN Forall(type.quantifiers, applySubstToType(substWithoutBound, type.type))

applySubstToTFun(subst, type) ==
  TFun([i \in DOMAIN type.from |-> applySubstToType(subst, type.from[i])],
       applySubstToType(subst, type.to))

\* composeSubst with the spread reversed ({ ...result, ...s1 }): on a key
\* bound by both, the binding of s1 wins.
composeSubstLeftWins(s1, s2) ==
  [k \in (DOMAIN s1) \cup (DOMAIN s2) |->
     IF k \in DOMAIN s1 THEN s1[k] ELSE applySubstToType(s1, s2[k])]

\* { ...s1, ...result }: a key of s2 overrides the same key of s1.
composeSubst(s1, s2) ==
  [k \in (DOMAIN s1) \cup (DOMAIN s2) |->
     IF k \in DOMAIN s2 THEN applySubstToType(s1, s2[k]) ELSE s1[k]]

(***************************************************************************)
(* Occurs check and structural equality.                                   *)
(***************************************************************************)
RECURSIVE contains(_, _)
contains(t, name) ==
  CASE t.nodeType = "Named" -> FALSE
    [] t.nodeType = "Var" -> t.name = name
    [] t.nodeType = "Union" ->
         \E i \in DOMAIN t.types : contains(t.types[i], name)
    [] t.nodeType = "Function" ->
         \/ \E i \in DOMAIN t.from : contains(t.from[i], name)
         \/ contains(t.to, name)

RECURSIVE typesEqual(_, _)
typesEqual(t1, t2) ==
  IF t1.nodeType = "Named" /\ t2.nodeType = "Named" THEN t1.name = t2.name
  ELSE IF t1.nodeType = "Var" /\ t2.nodeType = "Var" THEN t1.name = t2.name
  ELSE IF t1.nodeType = "Union" /\ t2.nodeType = "Union" THEN
    IF Len(t1.types) # Len(t2.types) THEN FALSE
    ELSE \A i \in DOMAIN t1.types :
           \E j \in DOMAIN t2.types : typesEqual(t1.types[i], t2.types[j])
  ELSE IF t1.nodeType = "Function" /\ t2.nodeType = "Function" THEN
    IF Len(t1.from) # Len(t2.from) THEN FALSE
    ELSE /\ \A i \in DOMAIN t1.from : typesEqual(t1.from[i], t2.from[i])
         /\ typesEqual(t1.to, t2.to)
  ELSE FALSE

\* varBind without the occurs check: whatever is not the variable itself is
\* bound.
varBindNoOccurs(name, t) ==
  IF t.nodeType = "Var" /\ t.name = name THEN Ok(EmptySubst)
  ELSE Ok([k \in {name} |-> t])

varBind(name, t) ==
  IF t.nodeType = "Var" /\ t.name = name THEN Ok(EmptySubst)
  ELSE IF t.nodeType = "Union"
          /\ \E i \in DOMAIN t.types : contains(t.types[i], name)
    THEN Ok(EmptySubst)
  ELSE IF contains(t, name) THEN ThrowString("contains a reference to itself")
  ELSE Ok([k \in {name} |-> t])

(***************************************************************************)
(* The unifier.  left is the restrictive type, right the type that must    *)
(* fit it.                                                                 *)
(***************************************************************************)
RECURSIVE unify(_, _), unifyFrom(_, _, _, _), unifyEvery(_, _, _, _),
          unifyEveryAsSome(_, _, _, _),
          unifySome(_, _, _), unifyEveryRight(_, _, _, _)

\* The parameter fold refusing parameter lists of different lengths.
unifyFromSameLength(t1from, rfrom, i, s) ==
  IF Len(t1from) # Len(rfrom)
  THEN TypeMismatchError(TFun(t1from, Named("undefined")),
                         TFun(rfrom, Named("undefined")))
  ELSE IF i > Len(t1from) THEN Ok(s)
  ELSE LET r == unify(t1from[i], rfrom[i])
       IN IF ~r.ok THEN r
          ELSE unifyFrom(t1from, rfrom, i + 1, composeSubst(s, r.s))

\* t1from.map((from, i) => unify(from, right.from[i])) folded by
\* composeSubst from {}; the first unify that throws ends the map.
unifyFrom(t1from, rfrom, i, s) ==
  IF i > Len(t1from) THEN Ok(s)
  ELSE LET r == unify(t1from[i], rfrom[i])
       IN IF ~r.ok THEN r ELSE unifyFrom(t1from, rfrom, i + 1, composeSubst(s, r.s))

\* Union x Union with `some` in place of `every`: the first member of the
\* right union that passes decides.
unifyEveryAsSome(left, rtypes, i, s) ==
  IF i > Len(rtypes) THEN [ok |-> FALSE]
  ELSE LET r == unify(left, rtypes[i])
       IN IF r.ok THEN Ok(composeSubst(s, r.s))
          ELSE unifyEveryAsSome(left, rtypes, i + 1, s)

\* Union x Union: right.types.every(t => subst = compose(subst, unify(left, t))).
\* The result is ok iff every member passed; any exception counts as a failure.
unifyEvery(left, rtypes, i, s) ==
  IF i > Len(rtypes) THEN Ok(s)
  ELSE LET r == unify(left, rtypes[i])
       IN IF ~r.ok THEN [ok |-> FALSE]
          ELSE unifyEvery(left, rtypes, i + 1, composeSubst(s, r.s))

\* Union x T: left.types.some(t => subst = compose(subst, unify(t, right))).
unifySome(ltypes, right, i) ==
  IF i > Len(ltypes) THEN [ok |-> FALSE]
  ELSE LET r == unify(ltypes[i], right)
       IN IF r.ok THEN Ok(composeSubst(EmptySubst, r.s))
          ELSE unifySome(ltypes, right, i + 1)

\* T x Union: right.types.every(t => subst = compose(subst, unify(t, left))).
unifyEveryRight(left, rtypes, i, s) ==
  IF i > Len(rtypes) THEN Ok(s)
  ELSE LET r == unify(rtypes[i], left)
       IN IF ~r.ok THEN [ok |-> FALSE]
          ELSE unifyEveryRight(left, rtypes, i + 1, composeSubst(s, r.s))

unify(left, right) ==
  IF left.nodeType = "Named" /\ right.nodeType = "Named" /\ left.name = right.name
    THEN Ok(EmptySubst)
  ELSE IF left.nodeType = "Var" THEN varBind(left.name, right)
  ELSE IF right.nodeType = "Var" THEN varBind(right.name, left)
  ELSE IF left.nodeType = "Function" /\ right.nodeType = "Function" THEN
    LET t1from == IF Len(left.from) > Len(right.from)
                  THEN SubSeq(left.from, 1, Len(right.from))
                  ELSE left.from
        r1 == unifyFrom(t1from, right.from, 1, EmptySubst)
    IN IF ~r1.ok THEN r1
       ELSE LET s1 == r1.s
                r2 == unify(applySubstToType(s1, left.to),
                            applySubstToType(s1, right.to))
            IN IF ~r2.ok THEN r2 ELSE Ok(composeSubst(s1, r2.s))
  ELSE IF left.nodeType = "Union" /\ right.nodeType = "Union" THEN
    IF Len(right.types) > Len(left.types) THEN TypeMismatchError(left, right)
    ELSE LET r == unifyEvery(left, right.types, 1, EmptySubst)
         IN IF r.ok THEN r ELSE TypeMismatchError(left, right)
  ELSE IF left.nodeType = "Union" THEN
    LET r == unifySome(left.types, right, 1)
    IN IF r.ok THEN r ELSE TypeMismatchError(left, right)
  ELSE IF right.nodeType = "Union" THEN
    LET r == unifyEveryRight(left, right.types, 1, EmptySubst)
    IN IF r.ok THEN r ELSE TypeMismatchError(left, right)
  ELSE TypeMismatchError(left, right)

(***************************************************************************)
(* Expression constructors (typedefs ENumber .. EBinary, Return, Throw,    *)
(* Block, If).  The value of a literal is never read by the engine and is  *)
(* left out.  loc is the node's source location.                           *)
(***************************************************************************)
ENumber(loc) == [nodeType |-> "Number", loc |-> loc]
EString(loc) == [nodeType |-> "String", loc |-> loc]
EBool(loc) == [nodeType |-> "Boolean", loc |-> loc]
EUndefined(loc) == [nodeType |-> "Undefined", loc |-> loc]
ENull(loc) == [nodeType |-> "Null", loc |-> loc]
EVar(name, loc) == [nodeType |-> "Var", name |-> name, loc |-> loc]
EFunc(params, body, loc) ==
  [nodeType |-> "Function", params |-> params, body |-> body, loc |-> loc]
EBinary(op, lhs, rhs, loc) ==
  [nodeType |-> "Binary", operator |-> op, lhs |-> lhs, rhs |-> rhs, loc |-> loc]
ECall(func, as, loc) ==
  [nodeType |-> "Call", func |-> func, args |-> as, loc |-> loc]
ELet(name, rhs, loc) ==
  [nodeType |-> "Let", name |-> name, rhs |-> rhs, loc |-> loc]
EAssign(name, lhsLoc, rhs, loc) ==
  [nodeType |-> "Assign", lhs |-> [name |-> name, loc |-> lhsLoc],
   rhs |-> rhs, loc |-> loc]
Return(rhs, loc) == [nodeType |-> "Return", rhs |-> rhs, loc |-> loc]
Throw(rhs, loc) == [nodeType |-> "Throw", rhs |-> rhs, loc |-> loc]
Block(body, loc) == [nodeType |-> "Block", body |-> body, loc |-> loc]
\* else: null is the node NoElse.
NoElse == [nodeType |-> "null"]
If(cond, then, else, loc) ==
  [nodeType |-> "If", condition |-> cond, then |-> then, else |-> else,
   loc |-> loc]

(***************************************************************************)
(* Contexts.  A Context object is {next, env}; applySubstToCtx and         *)
(* addToContext return a new object that copies next, so an allocation     *)
(* made through the copy does not advance the counter of the original.     *)
(***************************************************************************)
Context(next, env) == [next |-> next, env |-> env]

addToContext(c, name, type) ==
  Context(c.next,
          [k \in (DOMAIN c.env) \cup {name} |->
             IF k = name THEN type ELSE c.env[k]])

applySubstToCtx(subst, c) ==
  Context(c.next,
          [name \in DOMAIN c.env |->
             IF c.env[name].nodeType = "Forall"
             THEN applySubstToForall(subst, c.env[name])
             ELSE applySubstToType(subst, c.env[name])])

\* The name newTVar gives to the variable allocated at counter value n.
newTVar(n) == TVar("T" \o ToString(n))

\* generalize keeping the variables that are free in the environment
\* instead of dropping them.
generalizeEnvVars(env, type) ==
  LET envFreeVars == freeTypeVarsInEnv(env)
      typeFreeVars == freeTypeVarsInType(type)
      quantifiers == SelectSeq(typeFreeVars, LAMBDA n : n \in envFreeVars)
  IN IF Len(quantifiers) > 0 THEN Forall(quantifiers, type) ELSE type

generalize(env, type) ==
  LET envFreeVars == freeTypeVarsInEnv(env)
      typeFreeVars == freeTypeVarsInType(type)
      quantifiers == SelectSeq(typeFreeVars, LAMBDA n : n \notin envFreeVars)
  IN IF Len(quantifiers) > 0 THEN Forall(quantifiers, type) ELSE type

\* One newTVar per quantifier, in order, starting at counter value n.
instantiate(n, forall) ==
  LET qs == forall.quantifiers
      last(k) == CHOOSE i \in DOMAIN qs :
                   qs[i] = k /\ \A j \in DOMAIN qs : qs[j] = k => j <= i
      subst == [k \in { qs[i] : i \in DOMAIN qs } |-> newTVar(n + last(k) - 1)]
  IN applySubstToType(subst, forall.type)

(***************************************************************************)
(* infer.  The result of a normal return is                                *)
(*   [ok |-> TRUE, t, s, ctx, next]                                        *)
(* where <<t, s, ctx>> is the returned triple and next is the value the    *)
(* counter of the context object that was passed in has on return (the     *)
(* object is mutated in place by newTVar).  When the returned context is   *)
(* the object passed in, ctx.next = next.                                  *)
(* The last parameter d is the depth of the call stack.                    *)
(***************************************************************************)
InferOk(t, s, c, next) == [ok |-> TRUE, t |-> t, s |-> s, ctx |-> c, next |-> next]

\* catch (e) of case Call wrapping every error that carries want and got,
\* a TypeInferenceError raised further in included.
CallCatchRelocate(r, loc) ==
  IF r.err \in {"TypeMismatchError", "TypeInferenceError"}
  THEN TypeInferenceError(r, loc) ELSE r

\* catch (e) of case Call: a TypeMismatchError is wrapped, the rest rethrown.
CallCatch(r, loc) ==
  IF r.err = "TypeMismatchError" THEN TypeInferenceError(r, loc) ELSE r

\* inferAssign's catch rethrowing what it caught, without a location.
AssignCatchRethrow(r, loc) == r

\* catch (e) of inferAssign.
AssignCatch(r, loc) ==
  IF r.err = "TypeMismatchError" THEN TypeInferenceError(r, loc) ELSE r

inferVar(c, e) ==
  IF e.name \in DOMAIN c.env THEN
    LET envType == c.env[e.name]
    IN IF envType.nodeType = "Forall" THEN
         LET n == c.next + Len(envType.quantifiers)
         IN InferOk(instantiate(c.next, envType), EmptySubst,
                    Context(n, c.env), n)
       ELSE InferOk(envType, EmptySubst, c, c.next)
  ELSE ThrowString("Unbound var")

\* The per-parameter step stopping at the last supplied argument.
RECURSIVE unifyParamsSupplied(_, _, _, _)
unifyParamsSupplied(types, argTypes, i, s) ==
  IF i > Len(types) \/ i > Len(argTypes) THEN Ok(s)
  ELSE LET r == unify(types[i], argTypes[i])
       IN IF ~r.ok THEN r
          ELSE unifyParamsSupplied(types, argTypes, i + 1, composeSubst(s, r.s))

\* types.map((type, i) => unify(type, argTypes[i] or undefined)) folded by
\* composeSubst from {}.
RECURSIVE unifyParams(_, _, _, _)
unifyParams(types, argTypes, i, s) ==
  IF i > Len(types) THEN Ok(s)
  ELSE LET r == IF i <= Len(argTypes) THEN unify(types[i], argTypes[i])
                ELSE unify(types[i], Named("undefined"))
       IN IF ~r.ok THEN r ELSE unifyParams(types, argTypes, i + 1, composeSubst(s, r.s))

\* const r = v; ...rest: the value is computed once and named in the rest.
Bind(v, rest(_)) == rest(v)

RECURSIVE infer(_, _, _), inferBlock(_, _, _), inferIf(_, _, _),
          inferParams(_, _, _, _, _, _, _), inferArgs(_, _, _, _, _, _),
          blockLoop(_, _, _, _, _, _, _, _)

inferLet(c, expr, d) ==
  Bind(infer(c, expr.rhs, d + 1), LAMBDA r :
    IF ~r.ok THEN r
    ELSE
      Bind(applySubstToCtx(r.s, Context(r.next, c.env)), LAMBDA ctx1 :
      Bind(generalize(ctx1.env, r.t), LAMBDA rhsPolytype :
      Bind(addToContext(ctx1, expr.name, rhsPolytype), LAMBDA ctx2 :
        InferOk(Named("Undefined"), r.s, ctx2, r.next)))))

inferAssign(c, expr, d) ==
  IF expr.lhs.name \notin DOMAIN c.env THEN ThrowString("Unbound var")
  ELSE
    Bind(c.env[expr.lhs.name], LAMBDA assignedType :
    Bind(infer(c, expr.rhs, d + 1), LAMBDA r :
      IF ~r.ok THEN r
      ELSE
        Bind(applySubstToCtx(r.s, Context(r.next, c.env)), LAMBDA ctx1 :
          IF assignedType.nodeType = "Forall" THEN ThrowString("TODO")
          ELSE
            Bind(unify(assignedType, r.t), LAMBDA u :
              IF ~u.ok THEN AssignCatch(u, expr.lhs.loc)
              ELSE InferOk(assignedType, u.s,
                           applySubstToCtx(u.s, ctx1), r.next)))))

\* expr.params.reduce(..., ctx).  acc is the accumulated context, alias
\* tells whether acc still is the object passed to infer, onext is the
\* counter of that object.
inferParams(acc, params, i, newTypes, alias, onext, d) ==
  IF i > Len(params) THEN
    [ok |-> TRUE, ctx |-> acc, newTypes |-> newTypes, alias |-> alias,
     next |-> onext]
  ELSE
    Bind(params[i], LAMBDA param :
      CASE param.nodeType = "Var" ->
             inferParams(addToContext(acc, param.name, TVar(param.name)),
                         params, i + 1, Append(newTypes, TVar(param.name)),
                         FALSE, onext, d)
        [] param.nodeType = "Assign" ->
             Bind(infer(acc, param.rhs, d + 1), LAMBDA r :
               IF ~r.ok THEN r
               ELSE inferParams(addToContext(r.ctx, param.lhs.name, r.t),
                                params, i + 1, newTypes, FALSE,
                                IF alias THEN r.next ELSE onext, d))
        [] OTHER -> TypeError)

\* expr.args.forEach(arg => infer(ctx1, arg)): every argument is inferred in
\* the environment env1; the counter of ctx1 (n) runs through all of them.
inferArgs(env1, n, as, i, acc, d) ==
  IF i > Len(as) THEN
    [ok |-> TRUE, argTypes |-> acc.argTypes, s2 |-> acc.s2, next |-> n]
  ELSE
    Bind(infer(Context(n, env1), as[i], d + 1), LAMBDA r :
      IF ~r.ok THEN r
      ELSE inferArgs(env1, r.next, as, i + 1,
                     [argTypes |-> Append(acc.argTypes, r.t),
                      s2 |-> composeSubst(acc.s2, r.s)], d))

\* case Function returning the context of its body instead of the context
\* it was given.
inferFunctionInnerCtx(c, expr, d) ==
  Bind(inferParams(c, expr.params, 1, <<>>, TRUE, c.next, d), LAMBDA rp :
    IF ~rp.ok THEN rp
    ELSE
      Bind(rp.ctx, LAMBDA newCtx :
      Bind(rp.newTypes, LAMBDA newTypes :
      Bind(IF expr.body.nodeType = "Block"
           THEN inferBlock(newCtx, expr.body, d + 1)
           ELSE infer(newCtx, expr, d + 1), LAMBDA rb :
        IF ~rb.ok THEN rb
        ELSE
          Bind(composeSubst(EmptySubst, rb.s), LAMBDA subst :
          Bind(IF expr.body.nodeType = "Block"
               THEN applySubstToType(subst, rb.t)
               ELSE Named("undefined"), LAMBDA returnType :
          Bind(applySubstToType(subst, returnType), LAMBDA resType :
          Bind(TFun([j \in DOMAIN newTypes |->
                       applySubstToType(subst, newTypes[j])], resType),
               LAMBDA inferredType :
          Bind(IF rp.alias THEN rb.next ELSE rp.next, LAMBDA onext :
            InferOk(inferredType, subst, Context(onext, newCtx.env),
                    onext))))))))))

inferFunction(c, expr, d) ==
  Bind(inferParams(c, expr.params, 1, <<>>, TRUE, c.next, d), LAMBDA rp :
    IF ~rp.ok THEN rp
    ELSE
      Bind(rp.ctx, LAMBDA newCtx :
      Bind(rp.newTypes, LAMBDA newTypes :
      Bind(IF expr.body.nodeType = "Block"
           THEN inferBlock(newCtx, expr.body, d + 1)
           ELSE infer(newCtx, expr, d + 1), LAMBDA rb :
        IF ~rb.ok THEN rb
        ELSE
          Bind(composeSubst(EmptySubst, rb.s), LAMBDA subst :
          Bind(IF expr.body.nodeType = "Block"
               THEN applySubstToType(subst, rb.t)
               ELSE Named("undefined"), LAMBDA returnType :
          Bind(applySubstToType(subst, returnType), LAMBDA resType :
          Bind(TFun([j \in DOMAIN newTypes |->
                       applySubstToType(subst, newTypes[j])], resType),
               LAMBDA inferredType :
          Bind(IF rp.alias THEN rb.next ELSE rp.next, LAMBDA onext :
            InferOk(inferredType, subst, Context(onext, c.env),
                    onext))))))))))

inferCall(c, expr, d) ==
  Bind(infer(c, expr.func, d + 1), LAMBDA r1 :
    IF ~r1.ok THEN CallCatch(r1, expr.loc)
    ELSE
      Bind(r1.t, LAMBDA funcType :
      Bind(r1.s, LAMBDA s1 :
      Bind(applySubstToCtx(s1, Context(r1.next, c.env)), LAMBDA ctx1 :
      Bind(inferArgs(ctx1.env, ctx1.next, expr.args, 1,
                     [argTypes |-> <<>>, s2 |-> EmptySubst], d), LAMBDA ra :
        IF ~ra.ok THEN CallCatch(ra, expr.loc)
        ELSE
          Bind(ra.argTypes, LAMBDA argTypes :
          Bind(newTVar(ra.next), LAMBDA newVar :
          Bind(composeSubst(s1, ra.s2), LAMBDA s3 :
          Bind(unify(funcType, TFun(argTypes, newVar)), LAMBDA u4 :
            IF ~u4.ok THEN CallCatch(u4, expr.loc)
            ELSE IF funcType.nodeType = "Function" THEN
              Bind(u4.s, LAMBDA s4 :
              Bind(applySubstToTFun(s4, funcType), LAMBDA funcType1 :
              Bind(composeSubst(s3, s4), LAMBDA s5 :
              Bind([j \in DOMAIN funcType1.from |->
                      applySubstToType(s5, funcType1.from[j])], LAMBDA types :
              Bind(unifyParams(types, argTypes, 1, EmptySubst), LAMBDA u6 :
                IF ~u6.ok THEN CallCatch(u6, expr.loc)
                ELSE
                  Bind(composeSubst(s5, u6.s), LAMBDA resultSubst :
                    InferOk(applySubstToType(resultSubst, funcType1.to),
                            resultSubst, Context(r1.next, c.env),
                            r1.next)))))))
            ELSE TypeInferenceError(
                   TypeMismatchError(funcType, Named("function")),
                   expr.loc))))))))))

inferBinary(c, expr, d) ==
  Bind(infer(c, expr.lhs, d + 1), LAMBDA r1 :
    IF ~r1.ok THEN r1
    ELSE
      Bind(applySubstToCtx(r1.s, Context(r1.next, c.env)), LAMBDA ctx1 :
      Bind(infer(ctx1, expr.rhs, d + 1), LAMBDA r2 :
        IF ~r2.ok THEN r2
        ELSE
          Bind(applySubstToCtx(r2.s, Context(r2.next, ctx1.env)), LAMBDA ctx2 :
          Bind(Named("Number"), LAMBDA numberType :
          Bind(composeSubst(r2.s, r1.s), LAMBDA s :
            IF expr.operator = "+" THEN
              IF typesEqual(r1.t, numberType) /\ typesEqual(r2.t, numberType)
              THEN InferOk(Named("number"), s, ctx2, r1.next)
              ELSE InferOk(Named("string"), s, ctx2, r1.next)
            ELSE IF expr.operator = "===" THEN
              InferOk(Named("boolean"), s, ctx2, r1.next)
            ELSE ThrowString("TODO")))))))

infer(c, expr, d) ==
  IF d > MaxStack THEN RangeError
  ELSE
    CASE expr.nodeType = "Number" -> InferOk(Named("number"), EmptySubst, c, c.next)
      [] expr.nodeType = "String" -> InferOk(Named("string"), EmptySubst, c, c.next)
      [] expr.nodeType = "Undefined" ->
           InferOk(Named("undefined"), EmptySubst, c, c.next)
      [] expr.nodeType = "Null" -> InferOk(Named("null"), EmptySubst, c, c.next)
      [] expr.nodeType = "Boolean" ->
           InferOk(Named("boolean"), EmptySubst, c, c.next)
      [] expr.nodeType = "Binary" -> inferBinary(c, expr, d)
      [] expr.nodeType = "Let" -> inferLet(c, expr, d)
      [] expr.nodeType = "Assign" -> inferAssign(c, expr, d)
      [] expr.nodeType = "Var" -> inferVar(c, expr)
      [] expr.nodeType = "Function" -> inferFunction(c, expr, d)
      [] expr.nodeType = "Call" -> inferCall(c, expr, d)
      \* no case of the switch matches: infer returns undefined and the
      \* caller's destructuring throws
      [] OTHER -> TypeError

\* The result of inferBlock is [ok |-> TRUE, t, s, next]: the returned pair
\* and the counter of the context object passed in.  cur is the local
\* variable ctx, alias tells whether it still is the object passed in.
blockLoop(cur, body, i, subst, blockTypes, alias, onext, d) ==
  IF i > Len(body) THEN
    [ok |-> TRUE, t |-> TUnion(Append(blockTypes, Named("Undefined"))),
     s |-> subst, next |-> onext]
  ELSE
    Bind(body[i], LAMBDA e :
      CASE e.nodeType = "Return" ->
             Bind(infer(cur, e.rhs, d + 1), LAMBDA r :
               IF ~r.ok THEN r
               ELSE [ok |-> TRUE, t |-> r.t, s |-> composeSubst(subst, r.s),
                     next |-> IF alias THEN r.next ELSE onext])
        [] e.nodeType = "Throw" ->
             blockLoop(cur, body, i + 1, subst, blockTypes, alias, onext, d)
        [] e.nodeType = "Block" ->
             \* inferBlock never returns a null type, so `if (retType)`
             \* always takes the return
             Bind(inferBlock(cur, e, d + 1), LAMBDA rb :
               IF ~rb.ok THEN rb
               ELSE [ok |-> TRUE, t |-> rb.t, s |-> composeSubst(subst, rb.s),
                     next |-> IF alias THEN rb.next ELSE onext])
        [] e.nodeType = "If" ->
             Bind(inferIf(cur, e, d + 1), LAMBDA ri :
               IF ~ri.ok THEN ri
               ELSE IF ri.allBranches THEN
                 [ok |-> TRUE, t |-> ri.t, s |-> composeSubst(subst, ri.s),
                  next |-> IF alias THEN ri.next ELSE onext]
               ELSE blockLoop(Context(ri.next, cur.env), body, i + 1,
                              composeSubst(subst, ri.s),
                              Append(blockTypes, ri.t), alias,
                              IF alias THEN ri.next ELSE onext, d))
        [] OTHER ->
             Bind(infer(cur, e, d + 1), LAMBDA r :
               IF ~r.ok THEN r
               ELSE
                 Bind(composeSubst(subst, r.s), LAMBDA subst1 :
                   blockLoop(applySubstToCtx(subst1, r.ctx), body, i + 1,
                             subst1, blockTypes, FALSE,
                             IF alias THEN r.next ELSE onext, d))))

inferBlock(c, block, d) ==
  IF d > MaxStack THEN RangeError
  ELSE blockLoop(c, block.body, 1, EmptySubst, <<>>, TRUE, c.next, d)

\* The result is [ok |-> TRUE, allBranches, t, s, next].
inferIf(c, ifs, d) ==
  IF d > MaxStack THEN RangeError
  ELSE
    Bind(infer(c, ifs.condition, d + 1), LAMBDA r :
      IF ~r.ok THEN r
      ELSE
        Bind(composeSubst(EmptySubst, r.s), LAMBDA subst0 :
        Bind(applySubstToCtx(subst0, r.ctx), LAMBDA ctx0 :
        Bind(inferBlock(ctx0, ifs.then, d + 1), LAMBDA rt :
          IF ~rt.ok THEN rt
          ELSE
            Bind(composeSubst(subst0, rt.s), LAMBDA subst1 :
            Bind(applySubstToCtx(subst1, Context(rt.next, ctx0.env)),
                 LAMBDA ctx1 :
            Bind(<<rt.t>>, LAMBDA thenTypes :
              IF ifs.else.nodeType # "null" THEN
                Bind(inferBlock(ctx1, ifs.else, d + 1), LAMBDA re :
                  IF ~re.ok THEN re
                  ELSE
                    Bind(composeSubst(subst1, re.s), LAMBDA subst2 :
                    Bind(IF \E j \in DOMAIN thenTypes :
                              typesEqual(thenTypes[j], re.t)
                         THEN thenTypes
                         ELSE Append(thenTypes, re.t), LAMBDA types :
                      [ok |-> TRUE, allBranches |-> TRUE,
                       t |-> IF Len(types) = 1 THEN types[1]
                             ELSE TUnion(types),
                       s |-> subst2, next |-> r.next])))
              ELSE [ok |-> TRUE, allBranches |-> FALSE, t |-> thenTypes[1],
                    s |-> subst1, next |-> r.next])))))))

(***************************************************************************)
(* The seed environment handed to the engine by its callers: parseInt as   *)
(* the checker seeds it, ambig and identity as the tests seed them (with   *)
(* the type names the literals infer to).  identity is seeded either as    *)
(* the bare function type or as its scheme.                                *)
(***************************************************************************)
ParseIntType ==
  TFun(<<Named("string"), TUnion(<<Named("number"), Named("undefined")>>)>>,
       Named("number"))
AmbigType == TFun(<<>>, TUnion(<<Named("number"), Named("undefined")>>))
IdentityType == TFun(<<TVar("x")>>, TVar("x"))

initialEnv ==
  [name \in {"ambig", "parseInt", "identity"} |->
     CASE name = "ambig" -> AmbigType
       [] name = "parseInt" -> ParseIntType
       [] name = "identity" -> IdentityType]

\* The same seed with identity given as the scheme forall(["x"], (x) => x).
IdentityScheme == Forall(<<"x">>, IdentityType)
initialEnvScheme == [initialEnv EXCEPT !["identity"] = IdentityScheme]

startCtx == Context(0, initialEnv)

(***************************************************************************)
(* Source locations: lines are 1-based, columns 0-based.                   *)
(***************************************************************************)
Loc(line, c1, c2) ==
  [start |-> [line |-> line, column |-> c1], end |-> [line |-> line, column |-> c2]]

(***************************************************************************)
(* The top-level statements programs are made of.  Statement k is written  *)
(* on line k.                                                              *)
(***************************************************************************)
\* let x = "s";
LetXString == ELet("x", EString(Loc(1, 8, 11)), Loc(1, 0, 12))
\* x = 123;
AssignXNumber == EAssign("x", Loc(2, 0, 1), ENumber(Loc(2, 4, 7)), Loc(2, 0, 7))
\* parseInt = ambig;
AssignParseIntAmbig ==
  EAssign("parseInt", Loc(3, 0, 8), EVar("ambig", Loc(3, 11, 16)), Loc(3, 0, 16))
\* let id = (x) => { return x; };
LetIdBlock ==
  ELet("id",
       EFunc(<<EVar("x", Loc(4, 10, 11))>>,
             Block(<<Return(EVar("x", Loc(4, 25, 26)), Loc(4, 18, 27))>>,
                   Loc(4, 16, 29)),
             Loc(4, 9, 29)),
       Loc(4, 0, 30))
\* let id = x => x;
LetIdBare ==
  ELet("id",
       EFunc(<<EVar("x", Loc(5, 9, 10))>>, EVar("x", Loc(5, 14, 15)),
             Loc(5, 9, 15)),
       Loc(5, 0, 16))
\* id(1);
CallIdNumber ==
  ECall(EVar("id", Loc(6, 0, 2)), <<ENumber(Loc(6, 3, 4))>>, Loc(6, 0, 5))
\* id("a");
CallIdString ==
  ECall(EVar("id", Loc(7, 0, 2)), <<EString(Loc(7, 3, 6))>>, Loc(7, 0, 7))
\* parseInt("1");
CallParseIntOne ==
  ECall(EVar("parseInt", Loc(8, 0, 8)), <<EString(Loc(8, 9, 12))>>, Loc(8, 0, 13))
\* parseInt();
CallParseIntNone == ECall(EVar("parseInt", Loc(9, 0, 8)), <<>>, Loc(9, 0, 10))
\* let x = ambig();
LetXAmbig ==
  ELet("x", ECall(EVar("ambig", Loc(10, 8, 13)), <<>>, Loc(10, 8, 15)),
       Loc(10, 0, 16))
\* parseInt("1", x);
CallParseIntX ==
  ECall(EVar("parseInt", Loc(11, 0, 8)),
        <<EString(Loc(11, 9, 12)), EVar("x", Loc(11, 14, 15))>>, Loc(11, 0, 16))
\* let x = (a, b, c) => { let y = parseInt(b); a = 456; return c; };
LetScenario3 ==
  ELet("x",
       EFunc(<<EVar("a", Loc(12, 9, 10)), EVar("b", Loc(12, 12, 13)),
               EVar("c", Loc(12, 15, 16))>>,
             Block(<<ELet("y",
                          ECall(EVar("parseInt", Loc(12, 32, 40)),
                                <<EVar("b", Loc(12, 41, 42))>>, Loc(12, 32, 43)),
                          Loc(12, 24, 44)),
                     EAssign("a", Loc(12, 45, 46), ENumber(Loc(12, 49, 52)),
                             Loc(12, 45, 52)),
                     Return(EVar("c", Loc(12, 61, 62)), Loc(12, 54, 63))>>,
                   Loc(12, 22, 65)),
             Loc(12, 8, 65)),
       Loc(12, 0, 66))
\* let f = (c) => { if (c) { return 1; } else { return "s"; } };
LetIfElse ==
  ELet("f",
       EFunc(<<EVar("c", Loc(13, 9, 10))>>,
             Block(<<If(EVar("c", Loc(13, 21, 22)),
                        Block(<<Return(ENumber(Loc(13, 33, 34)), Loc(13, 26, 35))>>,
                              Loc(13, 24, 37)),
                        Block(<<Return(EString(Loc(13, 52, 55)), Loc(13, 45, 56))>>,
                              Loc(13, 43, 58)),
                        Loc(13, 17, 58))>>,
                   Loc(13, 15, 60)),
             Loc(13, 8, 60)),
       Loc(13, 0, 61))
\* let f = (c) => { if (c) { return 1; } else { return 2; } };
LetIfSame ==
  ELet("f",
       EFunc(<<EVar("c", Loc(14, 9, 10))>>,
             Block(<<If(EVar("c", Loc(14, 21, 22)),
                        Block(<<Return(ENumber(Loc(14, 33, 34)), Loc(14, 26, 35))>>,
                              Loc(14, 24, 37)),
                        Block(<<Return(ENumber(Loc(14, 52, 53)), Loc(14, 45, 54))>>,
                              Loc(14, 43, 56)),
                        Loc(14, 17, 56))>>,
                   Loc(14, 15, 58)),
             Loc(14, 8, 58)),
       Loc(14, 0, 59))
\* let f = (x) => { if (true) { return 1; } x = "s"; };
LetFallThrough ==
  ELet("f",
       EFunc(<<EVar("x", Loc(15, 9, 10))>>,
             Block(<<If(EBool(Loc(15, 21, 25)),
                        Block(<<Return(ENumber(Loc(15, 36, 37)), Loc(15, 29, 38))>>,
                              Loc(15, 27, 40)),
                        NoElse, Loc(15, 17, 40)),
                     EAssign("x", Loc(15, 41, 42), EString(Loc(15, 45, 48)),
                             Loc(15, 41, 48))>>,
                   Loc(15, 15, 51)),
             Loc(15, 8, 51)),
       Loc(15, 0, 52))
\* An else-less `if (true) { return <e>; }` on line l.
IfReturn(e, l) ==
  If(EBool(Loc(l, 4, 8)), Block(<<Return(e, Loc(l, 12, 20))>>, Loc(l, 10, 22)),
     NoElse, Loc(l, 0, 22))
\* let f = () => { if (true) { return 1; } if (true) { return 2; } };
LetTwoNumbers ==
  ELet("f",
       EFunc(<<>>,
             Block(<<IfReturn(ENumber(Loc(16, 19, 20)), 16),
                     IfReturn(ENumber(Loc(16, 19, 20)), 16)>>, Loc(16, 14, 60)),
             Loc(16, 8, 60)),
       Loc(16, 0, 61))
\* let g = () => { if (true) { return 1; } if (true) { return "s"; } };
LetNumberString ==
  ELet("g",
       EFunc(<<>>,
             Block(<<IfReturn(ENumber(Loc(17, 19, 20)), 17),
                     IfReturn(EString(Loc(17, 19, 22)), 17)>>, Loc(17, 14, 62)),
             Loc(17, 8, 62)),
       Loc(17, 0, 63))
\* let h = () => { if (true) { return f(); } else { return g(); } };
LetEitherCall ==
  ELet("h",
       EFunc(<<>>,
             Block(<<If(EBool(Loc(18, 20, 24)),
                        Block(<<Return(ECall(EVar("f", Loc(18, 35, 36)), <<>>,
                                             Loc(18, 35, 38)), Loc(18, 28, 39))>>,
                              Loc(18, 26, 41)),
                        Block(<<Return(ECall(EVar("g", Loc(18, 56, 57)), <<>>,
                                             Loc(18, 56, 59)), Loc(18, 49, 60))>>,
                              Loc(18, 47, 62)),
                        Loc(18, 16, 62))>>,
                   Loc(18, 14, 64)),
             Loc(18, 8, 64)),
       Loc(18, 0, 65))
\* let k = (a, b) => { return a; };
LetFirst ==
  ELet("k",
       EFunc(<<EVar("a", Loc(19, 9, 10)), EVar("b", Loc(19, 12, 13))>>,
             Block(<<Return(EVar("a", Loc(19, 28, 29)), Loc(19, 21, 30))>>,
                   Loc(19, 19, 32)),
             Loc(19, 8, 32)),
       Loc(19, 0, 33))
\* k(1);
CallFirstOne ==
  ECall(EVar("k", Loc(20, 0, 1)), <<ENumber(Loc(20, 2, 3))>>, Loc(20, 0, 4))

\* 1 + 2;
PlusNumbers ==
  EBinary("+", ENumber(Loc(21, 0, 1)), ENumber(Loc(21, 4, 5)), Loc(21, 0, 5))
\* 1 === "a";
EqMixed ==
  EBinary("===", ENumber(Loc(22, 0, 1)), EString(Loc(22, 6, 9)), Loc(22, 0, 9))
\* 1 - 2;
MinusNumbers ==
  EBinary("-", ENumber(Loc(23, 0, 1)), ENumber(Loc(23, 4, 5)), Loc(23, 0, 5))
\* x(1);
CallXOne ==
  ECall(EVar("x", Loc(24, 0, 1)), <<ENumber(Loc(24, 2, 3))>>, Loc(24, 0, 4))
\* let ap = (a) => { return a(1); };
LetApply ==
  ELet("ap",
       EFunc(<<EVar("a", Loc(25, 10, 11))>>,
             Block(<<Return(ECall(EVar("a", Loc(25, 25, 26)),
                                  <<ENumber(Loc(25, 27, 28))>>, Loc(25, 25, 29)),
                            Loc(25, 18, 30))>>,
                   Loc(25, 16, 32)),
             Loc(25, 9, 32)),
       Loc(25, 0, 33))
\* parseInt(parseInt(1));
CallNested ==
  ECall(EVar("parseInt", Loc(26, 0, 8)),
        <<ECall(EVar("parseInt", Loc(26, 9, 17)), <<ENumber(Loc(26, 18, 19))>>,
                Loc(26, 9, 20))>>,
        Loc(26, 0, 21))
\* parseInt(x = 123);
CallAssignArg ==
  ECall(EVar("parseInt", Loc(27, 0, 8)),
        <<EAssign("x", Loc(27, 9, 10), ENumber(Loc(27, 13, 16)), Loc(27, 9, 16))>>,
        Loc(27, 0, 17))
\* identity(x);
CallIdentityX ==
  ECall(EVar("identity", Loc(28, 0, 8)), <<EVar("x", Loc(28, 9, 10))>>,
        Loc(28, 0, 11))

Statements ==
  { LetXString, AssignXNumber, AssignParseIntAmbig, LetIdBlock, LetIdBare,
    CallIdNumber, CallIdString, CallParseIntOne, CallParseIntNone, LetXAmbig,
    CallParseIntX, LetScenario3, LetIfElse, LetIfSame, LetFallThrough,
    LetTwoNumbers, LetNumberString, LetEitherCall, LetFirst, CallFirstOne,
    PlusNumbers, EqMixed, MinusNumbers, CallXOne, LetApply, CallNested,
    CallAssignArg, CallIdentityX }

(***************************************************************************)
(* The driver (checkCode): the statements of a program are inferred in     *)
(* order, each in the context returned for the one before; an exception    *)
(* leaves the driver.                                                      *)
(***************************************************************************)
Init ==
  /\ ctx \in {startCtx, Context(0, initialEnvScheme)}
  /\ trace = <<>>
  /\ halted = FALSE
  /\ args = <<>>
  /\ out = Pending

\* infer returned for the next statement.
InferReturns(expr) ==
  LET r == infer(ctx, expr, 0)
  IN /\ ~halted
     /\ Len(trace) < MaxSteps
     /\ r.ok
     /\ ctx' = r.ctx
     /\ trace' = Append(trace, [expr |-> expr, before |-> ctx, res |-> r])
     /\ UNCHANGED <<halted, args, out>>

\* infer threw for the next statement.
InferThrows(expr) ==
  LET r == infer(ctx, expr, 0)
  IN /\ ~halted
     /\ Len(trace) < MaxSteps
     /\ ~r.ok
     /\ halted' = TRUE
     /\ trace' = Append(trace, [expr |-> expr, before |-> ctx, res |-> r])
     /\ UNCHANGED <<ctx, args, out>>

Next ==
  \/ \E expr \in Statements : InferReturns(expr)
  \/ \E expr \in Statements : InferThrows(expr)

Spec == Init /\ [][Next]_vars

(***************************************************************************)
(* The unifier and the composition of substitutions applied on their own   *)
(* to arguments drawn from bounded sets of types and substitutions.        *)
(***************************************************************************)
SeqsUpTo(S, n) == UNION { [1..k -> S] : k \in 0..n }

BaseTypes == { Named("number"), Named("string"), TVar("T0"), TVar("T1") }
FunTypes(n) == { TFun(f, t) : f \in SeqsUpTo(BaseTypes, n), t \in BaseTypes }
UnionTypes(n) == { TUnion(ts) : ts \in SeqsUpTo(BaseTypes, n) \ {<<>>} }
\* Unions whose single member is itself a union or a function.
NestedTypes == { TUnion(<<t>>) : t \in UnionTypes(MaxLen) \cup FunTypes(1) }
\* Functions of one parameter that is itself a union or a function, and
\* functions of two parameters the first of which is a function.
DeepTypes ==
  { TFun(<<t>>, Named("number")) : t \in UnionTypes(1) \cup FunTypes(1) }
    \cup { TFun(<<TFun(<<TVar("T1")>>, Named("number")), t>>, Named("number")) :
              t \in BaseTypes }
Types ==
  BaseTypes \cup FunTypes(MaxLen) \cup UnionTypes(MaxLen) \cup NestedTypes
    \cup DeepTypes

SubstVars == { "T0", "T1" }
SubstRange == BaseTypes \cup { TFun(<<TVar("T1")>>, TVar("T0")) }
Substs == UNION { [D -> SubstRange] : D \in SUBSET SubstVars }
ComposeBase == { Named("number"), TVar("T0"), TVar("T1") }
ComposeTypes ==
  ComposeBase
    \cup { TFun(f, t) : f \in SeqsUpTo(ComposeBase, MaxLen), t \in ComposeBase }
    \cup { TUnion(ts) : ts \in SeqsUpTo(ComposeBase, MaxLen) \ {<<>>} }

InitUnify ==
  /\ ctx = startCtx
  /\ trace = <<>>
  /\ halted = FALSE
  /\ args \in Types \X Types
  /\ out = Pending

ApplyUnify ==
  /\ ~out.done
  /\ out' = Done(unify(args[1], args[2]))
  /\ UNCHANGED <<ctx, trace, halted, args>>

SpecUnify == InitUnify /\ [][ApplyUnify]_vars

InitCompose ==
  /\ ctx = startCtx
  /\ trace = <<>>
  /\ halted = FALSE
  /\ args \in Substs \X Substs \X ComposeTypes
  /\ out = Pending

\* apply(compose(s1, s2), t) next to apply(s1, apply(s2, t)).
ApplyCompose ==
  /\ ~out.done
  /\ out' = Done([composed |-> applySubstToType(composeSubst(args[1], args[2]), args[3]),
                  sequential |-> applySubstToType(args[1],
                                             applySubstToType(args[2], args[3]))])
  /\ UNCHANGED <<ctx, trace, halted, args>>

SpecCompose == InitCompose /\ [][ApplyCompose]_vars

(***************************************************************************)
(* Properties.                                                             *)
(***************************************************************************)
\* The type of a scheme: the body of a Forall, or the bare type.
SchemeType(sch) == IF sch.nodeType = "Forall" THEN sch.type ELSE sch

\* What inferAssign sees of an Assign statement: the type bound to its
\* target, the outcome for its right-hand side and the unifier's verdict.
AssignBound(c, e) == c.env[e.lhs.name]
AssignRhs(c, e) == infer(c, e.rhs, 1)
\* The target is bound to a bare type that unify finds unable to
\* accommodate the type of the right-hand side.
AssignRejected(c, e) ==
  /\ e.nodeType = "Assign"
  /\ e.lhs.name \in DOMAIN c.env
  /\ AssignBound(c, e).nodeType # "Forall"
  /\ AssignRhs(c, e).ok
  /\ LET u == unify(AssignBound(c, e), AssignRhs(c, e).t)
     IN ~u.ok /\ u.err = "TypeMismatchError"

LetIdentity == { LetIdBlock, LetIdBare }

\* C2: after Let(id, f) with f the identity function on one unannotated
\* parameter, Call(id, [Number]) infers number and a following
\* Call(id, [String]) infers string, and none of them raises an error.
C2_LetPolymorphism ==
  \A i \in DOMAIN trace :
    trace[i].expr \in LetIdentity =>
      /\ trace[i].res.ok
      /\ (i + 1 \in DOMAIN trace /\ trace[i + 1].expr = CallIdNumber) =>
           (trace[i + 1].res.ok /\ trace[i + 1].res.t = Named("number"))
      /\ (i + 2 \in DOMAIN trace /\ trace[i + 1].expr = CallIdNumber
            /\ trace[i + 2].expr = CallIdString) =>
           (trace[i + 2].res.ok /\ trace[i + 2].res.t = Named("string"))

\* The depth of an expression tree.
Max(a, b) == IF a >= b THEN a ELSE b
RECURSIVE ExprDepth(_), ExprsDepth(_)
ExprsDepth(es) ==
  IF es = <<>> THEN 0 ELSE Max(ExprDepth(Head(es)), ExprsDepth(Tail(es)))
ExprDepth(e) ==
  CASE e.nodeType \in {"Binary"} -> 1 + Max(ExprDepth(e.lhs), ExprDepth(e.rhs))
    [] e.nodeType \in {"Let", "Return", "Throw"} -> 1 + ExprDepth(e.rhs)
    [] e.nodeType = "Assign" -> 1 + ExprDepth(e.rhs)
    [] e.nodeType = "Function" ->
         1 + Max(ExprsDepth(e.params), ExprDepth(e.body))
    [] e.nodeType = "Call" -> 1 + Max(ExprDepth(e.func), ExprsDepth(e.args))
    [] e.nodeType = "Block" -> 1 + ExprsDepth(e.body)
    [] e.nodeType = "If" ->
         1 + Max(ExprDepth(e.condition),
                 Max(ExprDepth(e.then), ExprDepth(e.else)))
    [] OTHER -> 1

\* C3: infer terminates with recursion depth bounded by the depth of the
\* expression (so a tree no deeper than the stack never exhausts it), and
\* a Function whose body is a bare expression gets the type of that
\* expression as its result type.
C3_Terminates ==
  \A i \in DOMAIN trace :
    LET e == trace[i].expr
        r == trace[i].res
    IN /\ ExprDepth(e) <= MaxStack => (r.ok \/ r.err # "RangeError")
       /\ e = LetIdBare =>
            (r.ok /\ SchemeType(r.ctx.env["id"]).to
                       = SchemeType(r.ctx.env["id"]).from[1])

\* What case Call sees of a call: the callee's type, the argument types and
\* the declared parameter types under the substitution of the first
\* unification (the `types` of the per-parameter step).
CallFunc(c, e) == infer(c, e.func, 1)
CallArgs(c, e) ==
  LET r1 == CallFunc(c, e)
  IN inferArgs(applySubstToCtx(r1.s, Context(r1.next, c.env)).env, r1.next,
               e.args, 1, [argTypes |-> <<>>, s2 |-> EmptySubst], 0)
CallFirstUnify(c, e) ==
  unify(CallFunc(c, e).t,
        TFun(CallArgs(c, e).argTypes, newTVar(CallArgs(c, e).next)))
CallParamTypes(c, e) ==
  LET r1 == CallFunc(c, e)
      s4 == CallFirstUnify(c, e).s
      s5 == composeSubst(composeSubst(r1.s, CallArgs(c, e).s2), s4)
  IN [j \in DOMAIN r1.t.from |->
        applySubstToType(s5, applySubstToType(s4, r1.t.from[j]))]

\* A call of a Function-typed callee with fewer arguments than parameters,
\* whose supplied arguments are all accepted.
Undersupplied(c, e) ==
  /\ e.nodeType = "Call"
  /\ CallFunc(c, e).ok
  /\ CallFunc(c, e).t.nodeType = "Function"
  /\ Len(e.args) < Len(CallFunc(c, e).t.from)
  /\ CallArgs(c, e).ok
  /\ CallFirstUnify(c, e).ok
  /\ \A j \in 1..Len(e.args) :
       unify(CallParamTypes(c, e)[j], CallArgs(c, e).argTypes[j]).ok

\* C4: a Call that supplies fewer arguments than the callee has parameters
\* is accepted exactly when every unsupplied parameter's type accommodates
\* undefined, and is otherwise rejected with an InferenceError located at
\* the call; parseInt("1") infers number.
C4_Undersupply ==
  \A i \in DOMAIN trace :
    LET e == trace[i].expr
        c == trace[i].before
        r == trace[i].res
    IN Undersupplied(c, e) =>
         LET types == CallParamTypes(c, e)
             missing == (Len(e.args) + 1)..Len(types)
         IN /\ r.ok <=> \A j \in missing : unify(types[j], Named("undefined")).ok
            /\ ~r.ok =>
                 /\ r.err = "TypeInferenceError"
                 /\ r.loc = e.loc
                 /\ r.got = Named("undefined")
                 /\ \E j \in missing : r.want = types[j]
            /\ (e = CallParseIntOne /\ c.env["parseInt"] = ParseIntType) =>
                 (r.ok /\ r.t = Named("number"))

\* C4 witness: one undersupplied call has been accepted (parseInt("1")) or
\* (k(1)), and another one rejected (parseInt()).
C4_Witness ==
  /\ Len(trace) >= 2
  /\ trace[1].expr = CallParseIntOne
  /\ Undersupplied(trace[1].before, trace[1].expr)
  /\ trace[1].res.ok
  /\ trace[Len(trace)].expr = CallParseIntNone
  /\ Undersupplied(trace[Len(trace)].before, trace[Len(trace)].expr)
  /\ ~trace[Len(trace)].res.ok

\* The types of `let x = ambig(); parseInt("1", x)`.
Scenario2 ==
  LET r1 == infer(startCtx, LetXAmbig, 0)
  IN infer(r1.ctx, CallParseIntX, 0)

\* composeSubst folded over a sequence of unify results, from {}.
RECURSIVE ComposeAll(_)
ComposeAll(rs) ==
  IF rs = <<>> THEN EmptySubst
  ELSE composeSubst(ComposeAll(SubSeq(rs, 1, Len(rs) - 1)), rs[Len(rs)].s)

C6_StrictRightUnion ==
  (out.done /\ args[1].nodeType \notin {"Var", "Union"}
     /\ args[2].nodeType = "Union") =>
    (out.res.ok => \A j \in DOMAIN args[2].types :
                     unify(args[1], args[2].types[j]).ok)

\* C7 (as stated): `let x = (a, b, c) => { let y = parseInt(b); a = 456;
\* return c; }` binds x to (T, string, T') => T' with the first parameter a
\* type variable and T' quantified.
C7_Original ==
  \A i \in DOMAIN trace :
    (trace[i].expr = LetScenario3
       /\ trace[i].before.env["parseInt"] = ParseIntType) =>
      /\ trace[i].res.ok
      /\ LET sch == trace[i].res.ctx.env["x"]
             t == SchemeType(sch)
         IN /\ sch.nodeType = "Forall"
            /\ t.nodeType = "Function"
            /\ Len(t.from) = 3
            /\ t.from[1].nodeType = "Var"
            /\ t.from[2] = Named("string")
            /\ t.from[3].nodeType = "Var"
            /\ t.to = t.from[3]
            /\ SeqContains(sch.quantifiers, t.to.name)

\* C7 (amended): the statement binds x to (number, string, T') => T': the
\* first parameter is number (narrowed by the assignment a = 456), the
\* second is string, the result is the type variable T' of the third
\* parameter, and T' is quantified in x's scheme.
C7_Scenario3 ==
  \A i \in DOMAIN trace :
    (trace[i].expr = LetScenario3
       /\ trace[i].before.env["parseInt"] = ParseIntType) =>
      /\ trace[i].res.ok
      /\ LET sch == trace[i].res.ctx.env["x"]
             t == SchemeType(sch)
         IN /\ sch.nodeType = "Forall"
            /\ t.nodeType = "Function"
            /\ Len(t.from) = 3
            /\ t.from[1] = Named("number")
            /\ t.from[2] = Named("string")
            /\ t.from[3].nodeType = "Var"
            /\ t.to = t.from[3]
            /\ sch.quantifiers = <<t.to.name>>

\* C7 witness: the statement has been inferred in an environment that
\* already binds x.
C7_Witness ==
  /\ Len(trace) = 2
  /\ trace[1].expr = LetXString
  /\ trace[2].expr = LetScenario3
  /\ trace[2].res.ok

\* The statements `let <name> = (<params>) => { if (..) { return <e1>; }
\* else { return <e2>; } }`, whose function body is one If with two
\* returning branches.
LetIfElseStatements == { LetIfElse, LetIfSame, LetEitherCall }
\* The context in which the body of the function bound by such a statement
\* is inferred, and the types of the two returned expressions in it.
BodyCtx(c, e) ==
  inferParams(c, e.rhs.params, 1, <<>>, TRUE, c.next, 1).ctx
ThenReturn(c, e) ==
  infer(BodyCtx(c, e), e.rhs.body.body[1].then.body[1].rhs, 1)
ElseReturn(c, e) ==
  infer(BodyCtx(c, e), e.rhs.body.body[1].else.body[1].rhs, 1)

\* C8: for an If in which both branches return, the If's type is the union
\* of the then type and the else type in that order, the else type being
\* omitted when it is structurally equal to the then type and a one-element
\* result unwrapped; `if (c) { return 1; } else { return "s"; }` gives
\* number | string, two branches returning number give number.
C8_IfElseUnion ==
  \A i \in DOMAIN trace :
    LET e == trace[i].expr
        c == trace[i].before
        r == trace[i].res
    IN (e \in LetIfElseStatements /\ r.ok) =>
         LET thenT == ThenReturn(c, e).t
             elseT == ElseReturn(c, e).t
         IN SchemeType(r.ctx.env[e.name]).to =
              IF thenT = elseT THEN thenT ELSE TUnion(<<thenT, elseT>>)

\* C9: a Block from which control can fall off the end has as its type the
\* union of the types collected from its else-less Ifs followed by the
\* undefined type, the very type the Undefined literal infers to; the body
\* `if (cond) { return 1; } x = "s";` has return type number | undefined.
C9_FallThroughUndefined ==
  \A i \in DOMAIN trace :
    LET e == trace[i].expr
        r == trace[i].res
    IN (e = LetFallThrough /\ r.ok) =>
         LET undefinedType == infer(startCtx, EUndefined(Loc(1, 0, 9)), 0).t
             to == SchemeType(r.ctx.env["f"]).to
         IN /\ to = TUnion(<<Named("number"), undefinedType>>)
            /\ unify(to.types[Len(to.types)], undefinedType).ok

\* C10: for all types t and substitutions s1, s2, overlapping domains
\* included, applying composeSubst(s1, s2) to t gives the same type as
\* applying s2 to t and then s1 to the result.
C10_CompositionLaw ==
  out.done => out.res.composed = out.res.sequential

\* C10 witness: the law has been exercised on two substitutions that both
\* bind a variable occurring in t, to different types.
C10_Witness ==
  /\ out.done
  /\ \E k \in (DOMAIN args[1]) \cap (DOMAIN args[2]) :
       /\ contains(args[3], k)
       /\ args[1][k] # args[2][k]
       /\ args[2][k].nodeType = "Function"
  /\ out.res.composed # args[3]

\* A type without type variables.
Ground(t) == freeTypeVarsInType(t) = <<>>

\* C11: unify(t, t) succeeds with the empty substitution for every ground
\* type t: Named, Function of ground types, Union of ground members, unions
\* of unions included.
C11_ReflexiveGround ==
  (out.done /\ args[1] = args[2] /\ Ground(args[1])) =>
    (out.res.ok /\ out.res.s = EmptySubst)

\* C12: whenever unify(l, r) succeeds with s, unify(apply(s, l), apply(s, r))
\* succeeds as well, function types with one variable in several parameter
\* positions included.
C12_Soundness ==
  (out.done /\ out.res.ok) =>
    unify(applySubstToType(out.res.s, args[1]),
          applySubstToType(out.res.s, args[2])).ok

\* C13: varBind(n, t) fails with the self-reference error for every t that
\* is not a Union, is not Var(n) and contains n at any depth; it returns {}
\* when t is Var(n) or a Union with a member containing n; otherwise it
\* returns exactly {n -> t}.  (unify(Var(n), t) is varBind(n, t).)
C13_OccursCheck ==
  (out.done /\ args[1].nodeType = "Var") =>
    LET n == args[1].name
        t == args[2]
    IN IF t.nodeType = "Var" /\ t.name = n THEN out.res = Ok(EmptySubst)
       ELSE IF t.nodeType = "Union" /\ contains(t, n) THEN out.res = Ok(EmptySubst)
       ELSE IF contains(t, n) THEN
         /\ ~out.res.ok
         /\ out.res.err = "string"
         /\ out.res.msg = "contains a reference to itself"
       ELSE out.res = Ok([k \in {n} |-> t])

\* C13 witness: varBind has rejected a function type that holds the variable
\* beneath a parameter that is itself a function.
C13_Witness ==
  /\ out.done
  /\ args[1] = TVar("T0")
  /\ args[2] = TFun(<<TFun(<<TVar("T0")>>, Named("number"))>>, Named("number"))
  /\ ~out.res.ok
  /\ out.res.err = "string"

\* C20: no substitution returned by unify maps a type variable to a type
\* that contains that same variable.
C20_NoCyclicBinding ==
  (out.done /\ out.res.ok) =>
    \A k \in DOMAIN out.res.s : ~contains(out.res.s[k], k)

\* What case Binary sees of its operands: the outcome for the left one, and
\* for the right one in the context the left one leaves.
BinaryLhs(c, e) == infer(c, e.lhs, 1)
BinaryRhs(c, e) ==
  infer(applySubstToCtx(BinaryLhs(c, e).s, Context(BinaryLhs(c, e).next, c.env)),
        e.rhs, 1)

\* C14: Binary('+', l, r) infers number when both operands infer to number
\* and string in every other case; Binary('===', l, r) infers boolean with
\* no more than the operands' substitutions; any other operator is
\* reported as unsupported.
C14_BinaryTypes ==
  \A i \in DOMAIN trace :
    LET e == trace[i].expr
        c == trace[i].before
        res == trace[i].res
    IN (e.nodeType = "Binary" /\ BinaryLhs(c, e).ok /\ BinaryRhs(c, e).ok) =>
         LET lt == BinaryLhs(c, e).t
             rt == BinaryRhs(c, e).t
         IN CASE e.operator = "+" ->
                   /\ res.ok
                   /\ res.t = IF lt = Named("number") /\ rt = Named("number")
                              THEN Named("number") ELSE Named("string")
              [] e.operator = "===" ->
                   /\ res.ok
                   /\ res.t = Named("boolean")
                   /\ res.s = composeSubst(BinaryRhs(c, e).s, BinaryLhs(c, e).s)
              [] OTHER -> ~res.ok /\ res.err = "string"

\* A top-level call whose callee and arguments can be inferred and whose
\* callee is not of a Function type.
CalleeNotFunction(c, e) ==
  /\ e.nodeType = "Call"
  /\ CallFunc(c, e).ok
  /\ CallArgs(c, e).ok
  /\ CallFunc(c, e).t.nodeType # "Function"

\* C15: a Call whose callee infers to anything other than a Function type
\* (a Named type, a union, an unresolved type variable such as an
\* unannotated parameter) raises an InferenceError at the call's location
\* with want = the callee's type and got = the Named type `function`.
C15_CalleeNotFunction ==
  \A i \in DOMAIN trace :
    LET e == trace[i].expr
        c == trace[i].before
        res == trace[i].res
    IN /\ CalleeNotFunction(c, e) =>
            res = TypeInferenceError(
                    TypeMismatchError(CallFunc(c, e).t, Named("function")), e.loc)
       /\ e = LetApply =>
            res = TypeInferenceError(
                    TypeMismatchError(TVar("a"), Named("function")),
                    e.rhs.body.body[1].rhs.loc)

\* The locations an InferenceError can carry: those of the Call nodes and
\* of the Assign targets of an expression.
RECURSIVE ErrorSites(_), ErrorSitesOf(_)
ErrorSitesOf(es) == UNION { ErrorSites(es[i]) : i \in DOMAIN es }
ErrorSites(e) ==
  CASE e.nodeType = "Call" ->
         {e.loc} \cup ErrorSites(e.func) \cup ErrorSitesOf(e.args)
    [] e.nodeType = "Assign" -> {e.lhs.loc} \cup ErrorSites(e.rhs)
    [] e.nodeType \in {"Let", "Return", "Throw"} -> ErrorSites(e.rhs)
    [] e.nodeType = "Binary" -> ErrorSites(e.lhs) \cup ErrorSites(e.rhs)
    [] e.nodeType = "Function" ->
         ErrorSitesOf(e.params) \cup ErrorSites(e.body)
    [] e.nodeType = "Block" -> ErrorSitesOf(e.body)
    [] e.nodeType = "If" ->
         ErrorSites(e.condition) \cup ErrorSites(e.then) \cup ErrorSites(e.else)
    [] OTHER -> {}

\* C16: no bare TypeMismatch leaves infer; every InferenceError carries the
\* location of a Call node or of an Assign target of the statement, the
\* innermost one around the mismatch: a Call (an Assign) passes on unchanged
\* the error raised by its arguments (its right-hand side), and an error of
\* its own unification carries its own location.
C16_ErrorLocation ==
  \A i \in DOMAIN trace :
    LET e == trace[i].expr
        c == trace[i].before
        res == trace[i].res
    IN ~res.ok =>
         /\ res.err # "TypeMismatchError"
         /\ res.err = "TypeInferenceError" =>
              /\ res.loc \in ErrorSites(e)
              /\ (e.nodeType = "Call" /\ CallFunc(c, e).ok) =>
                   IF CallArgs(c, e).ok THEN res.loc = e.loc
                   ELSE res = CallArgs(c, e)
              /\ (e.nodeType = "Assign" /\ e.lhs.name \in DOMAIN c.env) =>
                   IF AssignRhs(c, e).ok THEN res.loc = e.lhs.loc
                   ELSE res = AssignRhs(c, e)

\* C16 witness: `parseInt(x = 123)` after `let x = "s"` has raised the
\* InferenceError of the assignment, located at its target x and not at
\* the call.
C16_Witness ==
  \E i \in DOMAIN trace :
    /\ trace[i].expr = CallAssignArg
    /\ ~trace[i].res.ok
    /\ trace[i].res.err = "TypeInferenceError"
    /\ trace[i].res.loc = CallAssignArg.args[1].lhs.loc
    /\ trace[i].res.loc # CallAssignArg.loc

\* C17: when the inference of one top-level expression raises an error, the
\* driver still infers the top-level expressions that follow it: as long
\* as the program has statements left, an error in the trace does not
\* leave the driver without a next step.
C17_ContinuesAfterError ==
  ((\E i \in DOMAIN trace : ~trace[i].res.ok) /\ Len(trace) < MaxSteps) =>
    ENABLED Next

\* u is t with type variables possibly replaced by types.
RECURSIVE TypeInstance(_, _)
TypeInstance(t, u) ==
  CASE t.nodeType = "Var" -> TRUE
    [] t.nodeType = "Named" -> u = t
    [] t.nodeType = "Function" ->
         /\ u.nodeType = "Function"
         /\ Len(u.from) = Len(t.from)
         /\ \A k \in DOMAIN t.from : TypeInstance(t.from[k], u.from[k])
         /\ TypeInstance(t.to, u.to)
    [] t.nodeType = "Union" ->
         /\ u.nodeType = "Union"
         /\ Len(u.types) = Len(t.types)
         /\ \A k \in DOMAIN t.types : TypeInstance(t.types[k], u.types[k])

\* sch is the declared scheme decl or a substitution instance of it.
SchemeInstance(decl, sch) ==
  IF decl.nodeType = "Forall"
  THEN /\ sch.nodeType = "Forall"
       /\ sch.quantifiers = decl.quantifiers
       /\ TypeInstance(decl.type, sch.type)
  ELSE sch.nodeType # "Forall" /\ TypeInstance(decl, sch)

\* C18: once Let(n, e) has bound n, every environment produced by the
\* accepted statements that follow binds n to the declared scheme or to a
\* substitution instance of it.
C18_TypeNeverChanges ==
  \A i \in DOMAIN trace : \A j \in DOMAIN trace :
    (i < j /\ trace[i].expr.nodeType = "Let" /\ trace[i].res.ok
       /\ trace[j].res.ok) =>
      LET n == trace[i].expr.name
      IN /\ n \in DOMAIN trace[j].res.ctx.env
         /\ SchemeInstance(trace[i].res.ctx.env[n], trace[j].res.ctx.env[n])

\* The names newTVar hands out, in order, while infer(c, e) runs on a
\* reference, a call or a Let of one: one per quantifier at a reference to
\* a Forall-bound name, one return variable per Call after its callee and
\* arguments.  (Allocations inside function bodies are left out.)
RECURSIVE allocated(_, _), allocatedArgs(_, _, _, _)
allocatedArgs(env1, n, as, i) ==
  IF i > Len(as) THEN <<>>
  ELSE LET r == infer(Context(n, env1), as[i], 1)
       IN allocated(Context(n, env1), as[i])
            \o (IF r.ok THEN allocatedArgs(env1, r.next, as, i + 1) ELSE <<>>)
allocated(c, e) ==
  CASE e.nodeType = "Var" ->
         IF e.name \in DOMAIN c.env /\ c.env[e.name].nodeType = "Forall"
         THEN [k \in 1..Len(c.env[e.name].quantifiers) |->
                 newTVar(c.next + k - 1).name]
         ELSE <<>>
    [] e.nodeType = "Call" ->
         allocated(c, e.func)
           \o (IF CallFunc(c, e).ok
               THEN allocatedArgs(c.env, CallFunc(c, e).next, e.args, 1)
                      \o (IF CallArgs(c, e).ok
                          THEN <<newTVar(CallArgs(c, e).next).name>>
                          ELSE <<>>)
               ELSE <<>>)
    [] e.nodeType = "Let" -> allocated(c, e.rhs)
    [] OTHER -> <<>>

\* The names allocated by the first k statements of the program.
RECURSIVE AllocatedUpTo(_)
AllocatedUpTo(k) ==
  IF k = 0 THEN <<>>
  ELSE AllocatedUpTo(k - 1) \o allocated(trace[k].before, trace[k].expr)

\* C19: every type variable allocated during the inference of one program
\* has a name distinct from every variable allocated before it, and
\* `identity(x)`, x bound to a scheme, returns x's type over variables that
\* are not the scheme's quantifiers.
C19_Freshness ==
  /\ LET names == AllocatedUpTo(Len(trace))
     IN \A a \in DOMAIN names : \A b \in DOMAIN names :
          a # b => names[a] # names[b]
  /\ \A i \in DOMAIN trace :
       (trace[i].expr = CallIdentityX /\ trace[i].res.ok
          /\ trace[i].before.env["x"].nodeType = "Forall") =>
         \A k \in DOMAIN trace[i].before.env["x"].quantifiers :
           ~contains(trace[i].res.t, trace[i].before.env["x"].quantifiers[k])

(***************************************************************************)
(* Generalisation at Let.                                                  *)
(***************************************************************************)
\* The type inferred for the right-hand side of a Let and the environment
\* inferLet generalises it against.
LetRhs(c, e) == infer(c, e.rhs, 1)
LetEnv(c, e) == applySubstToCtx(LetRhs(c, e).s, c).env
SeqRange(seq) == { seq[j] : j \in DOMAIN seq }

\* C21: whenever Let binds a name, the quantifier set of the scheme is
\* freeVars(type) minus freeVars(environment after the rhs substitution),
\* hence disjoint from the free type variables of that environment; when
\* the difference is empty the name is bound to the bare type.
C21_LetQuantifiers ==
  \A i \in DOMAIN trace :
    LET e == trace[i].expr
        c == trace[i].before
        r == trace[i].res
    IN (e.nodeType = "Let" /\ r.ok) =>
         LET t == LetRhs(c, e).t
             envVars == freeTypeVarsInEnv(LetEnv(c, e))
             Q == SeqRange(freeTypeVarsInType(t)) \ envVars
             sch == r.ctx.env[e.name]
         IN IF Q = {} THEN sch = t
            ELSE /\ sch.nodeType = "Forall"
                 /\ sch.type = t
                 /\ SeqRange(sch.quantifiers) = Q
                 /\ SeqRange(sch.quantifiers) \cap envVars = {}

\* C21 witness: one Let has bound a scheme in an environment with free type
\* variables, and one Let has bound a type that has type variables bare
\* because all of them are free in the environment.
C21_Witness ==
  /\ Len(trace) = 2
  /\ trace[1].expr = LetIdBlock
  /\ trace[1].res.ok
  /\ trace[1].res.ctx.env["id"].nodeType = "Function"
  /\ freeTypeVarsInType(trace[1].res.ctx.env["id"]) # <<>>
  /\ trace[2].expr = LetScenario3
  /\ trace[2].res.ok
  /\ trace[2].res.ctx.env["x"].nodeType = "Forall"
  /\ freeTypeVarsInEnv(LetEnv(trace[2].before, trace[2].expr)) # {}

(***************************************************************************)
(* The returned context against the returned substitution.                 *)
(***************************************************************************)
\* C22: if infer(ctx, e) returns (t, s, ctx'), the environment of ctx' is
\* the environment of ctx with s applied to every scheme (for Let, plus the
\* newly introduced binding); so for Let, Assign, Call and every other
\* top-level expression.
C22_PostEnvIsSubstEnv ==
  \A i \in DOMAIN trace :
    LET e == trace[i].expr
        c == trace[i].before
        r == trace[i].res
    IN r.ok =>
         LET expected == applySubstToCtx(r.s, c).env
         IN IF e.nodeType = "Let"
            THEN /\ DOMAIN r.ctx.env = DOMAIN c.env \cup {e.name}
                 /\ \A n \in DOMAIN c.env \ {e.name} :
                      r.ctx.env[n] = expected[n]
            ELSE r.ctx.env = expected

(***************************************************************************)
(* Programs about scopes, blocks and arity: the same driver over a second  *)
(* set of top-level statements.                                            *)
(***************************************************************************)
\* A call parseInt(1) on line l, which case Call rejects (number against
\* string).
CallParseIntNumber(l) ==
  ECall(EVar("parseInt", Loc(l, 40, 48)), <<ENumber(Loc(l, 49, 50))>>,
        Loc(l, 40, 51))
\* let n = (a) => { if (true) { a = 1; } a = "s"; };
LetNarrowInIf ==
  ELet("n",
       EFunc(<<EVar("a", Loc(29, 9, 10))>>,
             Block(<<If(EBool(Loc(29, 21, 25)),
                        Block(<<EAssign("a", Loc(29, 29, 30),
                                        ENumber(Loc(29, 33, 34)),
                                        Loc(29, 29, 34))>>,
                              Loc(29, 27, 37)),
                        NoElse, Loc(29, 17, 37)),
                     EAssign("a", Loc(29, 38, 39), EString(Loc(29, 42, 45)),
                             Loc(29, 38, 45))>>,
                   Loc(29, 15, 48)),
             Loc(29, 8, 48)),
       Loc(29, 0, 49))
\* let d = (a, b = 1) => { return a; };
LetDefault ==
  ELet("d",
       EFunc(<<EVar("a", Loc(30, 9, 10)),
               EAssign("b", Loc(30, 12, 13), ENumber(Loc(30, 16, 17)),
                       Loc(30, 12, 17))>>,
             Block(<<Return(EVar("a", Loc(30, 32, 33)), Loc(30, 25, 34))>>,
                   Loc(30, 23, 36)),
             Loc(30, 8, 36)),
       Loc(30, 0, 37))
\* let s = () => { if (true) { let z = 1; } else { return z; } };
LetLeakElse ==
  ELet("s",
       EFunc(<<>>,
             Block(<<If(EBool(Loc(31, 20, 24)),
                        Block(<<ELet("z", ENumber(Loc(31, 36, 37)),
                                     Loc(31, 28, 38))>>,
                              Loc(31, 26, 40)),
                        Block(<<Return(EVar("z", Loc(31, 55, 56)),
                                       Loc(31, 48, 57))>>,
                              Loc(31, 46, 59)),
                        Loc(31, 16, 59))>>,
                   Loc(31, 14, 61)),
             Loc(31, 8, 61)),
       Loc(31, 0, 62))
\* let s = () => { if (true) { let z = 1; } return z; };
LetLeakAfter ==
  ELet("s",
       EFunc(<<>>,
             Block(<<If(EBool(Loc(32, 20, 24)),
                        Block(<<ELet("z", ENumber(Loc(32, 36, 37)),
                                     Loc(32, 28, 38))>>,
                              Loc(32, 26, 40)),
                        NoElse, Loc(32, 16, 40)),
                     Return(EVar("z", Loc(32, 48, 49)), Loc(32, 41, 50))>>,
                   Loc(32, 14, 52)),
             Loc(32, 8, 52)),
       Loc(32, 0, 53))
\* let w = () => { if (true) { } else { return 2; } parseInt(1); };
LetElseNoReturn ==
  ELet("w",
       EFunc(<<>>,
             Block(<<If(EBool(Loc(33, 20, 24)),
                        Block(<<>>, Loc(33, 26, 29)),
                        Block(<<Return(ENumber(Loc(33, 35, 36)),
                                       Loc(33, 28, 37))>>,
                              Loc(33, 26, 39)),
                        Loc(33, 16, 39)),
                     CallParseIntNumber(33)>>,
                   Loc(33, 14, 54)),
             Loc(33, 8, 54)),
       Loc(33, 0, 55))
\* let v = () => { { } parseInt(1); };
LetNestedBlock ==
  ELet("v",
       EFunc(<<>>,
             Block(<<Block(<<>>, Loc(34, 16, 19)), CallParseIntNumber(34)>>,
                   Loc(34, 14, 54)),
             Loc(34, 8, 54)),
       Loc(34, 0, 55))
\* parseInt("1", 2, "x");
CallParseIntSurplus ==
  ECall(EVar("parseInt", Loc(35, 0, 8)),
        <<EString(Loc(35, 9, 12)), ENumber(Loc(35, 14, 15)),
          EString(Loc(35, 17, 20))>>,
        Loc(35, 0, 21))

ScopeStatements ==
  { LetNarrowInIf, LetDefault, LetLeakElse, LetLeakAfter, LetElseNoReturn,
    LetNestedBlock, CallParseIntSurplus, CallParseIntOne, LetScenario3 }

NextScope ==
  \/ \E expr \in ScopeStatements : InferReturns(expr)
  \/ \E expr \in ScopeStatements : InferThrows(expr)

SpecScope == Init /\ [][NextScope]_vars

\* C23: within a Block each statement is inferred in an environment to
\* which the substitutions of all earlier statements of the block have been
\* applied, that of an earlier If included: a parameter narrowed to number
\* inside an If cannot afterwards be assigned a string without an error, so
\* `(a) => { if (true) { a = 1; } a = "s"; }` is rejected.
C23_IfSubstSeenLater ==
  \A i \in DOMAIN trace :
    (trace[i].expr = LetNarrowInIf) =>
      /\ ~trace[i].res.ok
      /\ trace[i].res.err = "TypeInferenceError"

(***************************************************************************)
(* Function parameters.                                                    *)
(***************************************************************************)
\* The bare-name parameters of a function expression.
BareParams(f) ==
  { f.params[j].name : j \in { k \in DOMAIN f.params :
                                 f.params[k].nodeType = "Var" } }

\* C24: the type variable given to an unannotated parameter is fresh: it is
\* not free in the surrounding environment, so after a Let of a function
\* whose body constrains its parameter every binding that existed before
\* has the type it had.
C24_ParamVarFresh ==
  \A i \in DOMAIN trace :
    LET e == trace[i].expr
        c == trace[i].before
        r == trace[i].res
    IN (e.nodeType = "Let" /\ e.rhs.nodeType = "Function" /\ r.ok) =>
         /\ \A p \in BareParams(e.rhs) :
              LET t == BodyCtx(c, e).env[p]
              IN t.nodeType = "Var" /\ t.name \notin freeTypeVarsInEnv(c.env)
         /\ \A n \in DOMAIN c.env \ {e.name} : r.ctx.env[n] = c.env[n]

\* C25: the inferred type of Function(params, body) has exactly one
\* parameter type per element of params, in declaration order: a bare-name
\* parameter contributes its (substituted) type variable, a parameter with a
\* default value the inferred type of its default expression.
C25_OneTypePerParam ==
  \A i \in DOMAIN trace :
    LET e == trace[i].expr
        c == trace[i].before
        r == trace[i].res
    IN (e.nodeType = "Let" /\ e.rhs.nodeType = "Function" /\ r.ok) =>
         LET params == e.rhs.params
             from == SchemeType(r.ctx.env[e.name]).from
         IN /\ Len(from) = Len(params)
            /\ \A j \in DOMAIN params :
                 IF params[j].nodeType = "Var"
                 THEN from[j] = applySubstToType(r.s, TVar(params[j].name))
                 ELSE from[j] = infer(c, params[j].rhs, 1).t

(***************************************************************************)
(* Scopes.                                                                 *)
(***************************************************************************)
\* C26: bindings never leak out of their scope: infer on a Function or a
\* Call returns the environment it was given, name for name and scheme for
\* scheme; a name bound by Let inside a function body is absent after the
\* function, and a name bound by Let in one branch of an If is unbound in
\* the sibling branch and in the statements that follow the If.
C26_NoLeak ==
  \A i \in DOMAIN trace :
    LET e == trace[i].expr
        c == trace[i].before
        r == trace[i].res
    IN /\ (e.nodeType = "Let" /\ e.rhs.nodeType = "Function" /\ r.ok) =>
            /\ LetRhs(c, e).ctx.env = c.env
            /\ DOMAIN r.ctx.env = DOMAIN c.env \cup {e.name}
       /\ (e.nodeType = "Call" /\ r.ok) => r.ctx.env = c.env
       /\ e \in {LetLeakElse, LetLeakAfter} => r = ThrowString("Unbound var")

\* C26 witness: a function whose body binds y and has parameters a, b, c
\* has been inferred and none of these names is bound afterwards, a call
\* has returned, and the use of a name bound in the other branch of an If
\* has been rejected.
C26_Witness ==
  /\ Len(trace) = 3
  /\ trace[1].expr = LetScenario3
  /\ trace[1].res.ok
  /\ {"a", "b", "c", "y"} \cap DOMAIN trace[1].res.ctx.env = {}
  /\ trace[2].expr = CallParseIntSurplus
  /\ trace[2].res.ok
  /\ trace[3].expr = LetLeakElse
  /\ ~trace[3].res.ok

(***************************************************************************)
(* Arity.                                                                  *)
(***************************************************************************)
Min(a, b) == IF a < b THEN a ELSE b
Truncated(f, m) == TFun(SubSeq(f.from, 1, m), f.to)
\* A call of a Function-typed callee whose arguments have been inferred.
CallOfFunction(c, e) ==
  /\ e.nodeType = "Call"
  /\ CallFunc(c, e).ok
  /\ CallFunc(c, e).t.nodeType = "Function"
  /\ CallArgs(c, e).ok

\* C27: unify on two Function types compares parameters pairwise up to the
\* length of the shorter parameter list only, on either side; consequently
\* a Call that supplies more arguments than the callee declares is accepted
\* as the call without the surplus arguments is, with the same type, and
\* parseInt("1", 2, "x") infers number.
C27_ShorterListDecides ==
  \A i \in DOMAIN trace :
    LET e == trace[i].expr
        c == trace[i].before
        r == trace[i].res
    IN CallOfFunction(c, e) =>
         LET f == CallFunc(c, e).t
             a == TFun(CallArgs(c, e).argTypes, newTVar(CallArgs(c, e).next))
             m == Min(Len(f.from), Len(a.from))
             short == infer(c, [e EXCEPT !.args = SubSeq(e.args, 1, m)], 1)
         IN /\ unify(f, a) = unify(Truncated(f, m), Truncated(a, m))
            /\ Len(a.from) > Len(f.from) =>
                 /\ r.ok = short.ok
                 /\ r.ok => r.t = short.t
            /\ (e = CallParseIntSurplus /\ f = ParseIntType) =>
                 (r.ok /\ r.t = Named("number"))

\* C27 witness: a call with fewer arguments than parameters and a call with
\* more arguments than parameters, the surplus one a string, have both been
\* accepted.
C27_Witness ==
  /\ Len(trace) = 2
  /\ trace[1].expr = CallParseIntOne
  /\ trace[1].res.ok
  /\ trace[2].expr = CallParseIntSurplus
  /\ CallOfFunction(trace[2].before, trace[2].expr)
  /\ Len(trace[2].expr.args) > Len(CallFunc(trace[2].before, trace[2].expr).t.from)
  /\ trace[2].res.ok

(***************************************************************************)
(* Early exits of a Block.                                                 *)
(***************************************************************************)
\* C28: an If with an else branch is an early exit of its Block only when
\* both branches return; when one of them can complete without a Return the
\* statements after the If are still inferred and their type errors are
\* reported, so `() => { if (true) { } else { return 2; } parseInt(1); }`
\* is rejected with the InferenceError of parseInt(1).
C28_IfElseNotAlwaysExit ==
  \A i \in DOMAIN trace :
    (trace[i].expr = LetElseNoReturn) =>
      /\ ~trace[i].res.ok
      /\ trace[i].res.err = "TypeInferenceError"
      /\ trace[i].res.loc = CallParseIntNumber(33).loc

\* C29: a nested Block ends the enclosing block only when it returned; after
\* a nested Block without a Return the enclosing block continues and the
\* statements after it are inferred, so `() => { { } parseInt(1); }` is
\* rejected with the InferenceError of parseInt(1).
C29_NestedBlockContinues ==
  \A i \in DOMAIN trace :
    (trace[i].expr = LetNestedBlock) =>
      /\ ~trace[i].res.ok
      /\ trace[i].res.err = "TypeInferenceError"
      /\ trace[i].res.loc = CallParseIntNumber(34).loc

(***************************************************************************)
(* The language server.  args is the text of the open document (the        *)
(* statements it parses to), out the diagnostics last published for it,    *)
(* trace the last event handled and whether its handler published.         *)
(***************************************************************************)
RECURSIVE typeToString(_), joinTypes(_, _, _)
\* types.map(typeToString).join(sep), from element i on.
joinTypes(types, sep, i) ==
  IF i > Len(types) THEN ""
  ELSE IF i = Len(types) THEN typeToString(types[i])
  ELSE typeToString(types[i]) \o sep \o joinTypes(types, sep, i + 1)

typeToString(type) ==
  CASE type.nodeType = "Named" -> type.name
    [] type.nodeType = "Var" -> type.name
    [] type.nodeType = "Union" -> joinTypes(type.types, " | ", 1)
    [] type.nodeType = "Function" ->
         "(" \o joinTypes(type.from, ", ", 1) \o ") => " \o typeToString(type.to)
    [] OTHER -> "undefined"

\* The environment checkCode seeds.
parseInitialEnv == [name \in {"parseInt"} |-> ParseIntType]

\* infAst.reduce((ctx, expr) => infer(ctx, expr)[2], startCtx): the result
\* is that of the first statement that throws, if any.
RECURSIVE checkCodeFrom(_, _, _)
checkCodeFrom(c, infAst, i) ==
  IF i > Len(infAst) THEN [ok |-> TRUE]
  ELSE Bind(infer(c, infAst[i], 0), LAMBDA r :
         IF ~r.ok THEN r ELSE checkCodeFrom(r.ctx, infAst, i + 1))

checkCode(code) == checkCodeFrom(Context(0, parseInitialEnv), code, 1)

\* The diagnostic built from a caught TypeInferenceError.
Diagnostic(e) ==
  [severity |-> "Error",
   range |-> [start |-> [line |-> e.loc.start.line - 1,
                         character |-> e.loc.start.column],
              end |-> [line |-> e.loc.end.line - 1,
                       character |-> e.loc.end.column]],
   message |-> "Type mismatch: expected " \o typeToString(e.want)
                 \o ", got " \o typeToString(e.got)]

\* What one run of the handler sends: the empty list, one diagnostic, or
\* nothing when the exception caught is not a TypeInferenceError.
checckAndSendDiagnostics(code) ==
  Bind(checkCode(code), LAMBDA r :
    IF r.ok THEN [sent |-> TRUE, diagnostics |-> <<>>]
    ELSE IF r.err = "TypeInferenceError"
    THEN [sent |-> TRUE, diagnostics |-> <<Diagnostic(r)>>]
    ELSE [sent |-> FALSE, diagnostics |-> <<>>])

\* let sa = (h) => { return h(h); };
LetSelfApply ==
  ELet("sa",
       EFunc(<<EVar("h", Loc(36, 10, 11))>>,
             Block(<<Return(ECall(EVar("h", Loc(36, 25, 26)),
                                  <<EVar("h", Loc(36, 27, 28))>>,
                                  Loc(36, 25, 29)),
                            Loc(36, 18, 30))>>,
                   Loc(36, 16, 32)),
             Loc(36, 9, 32)),
       Loc(36, 0, 33))

LspStatements ==
  { LetXString, AssignXNumber, CallIdNumber, CallParseIntNone, MinusNumbers,
    LetSelfApply }
\* The texts a document can have.
Documents == SeqsUpTo(LspStatements, MaxLen)

InitLsp ==
  /\ ctx = startCtx
  /\ trace = <<>>
  /\ halted = FALSE
  /\ args = <<>>
  /\ out = Pending

Handle(event, code) ==
  LET m == checckAndSendDiagnostics(code)
  IN /\ args' = code
     /\ trace' = <<[event |-> event, sent |-> m.sent]>>
     /\ out' = IF m.sent THEN Done(m.diagnostics) ELSE out
     /\ UNCHANGED <<ctx, halted>>

OnDidOpen(code) == trace = <<>> /\ Handle("open", code)

OnDidChangeContent(code) == trace # <<>> /\ Handle("change", code)

NextLsp ==
  \/ \E code \in Documents : OnDidOpen(code)
  \/ \E code \in Documents : OnDidChangeContent(code)

SpecLsp == InitLsp /\ [][NextLsp]_vars

\* C30: after every open or change event the server has published the
\* diagnostics of the document's current text: the empty list when checking
\* succeeds and one error diagnostic (built from the error's location when
\* it has one) when it fails, whatever the error; no diagnostic of an
\* earlier version stays in force.
C30_DiagnosticsCurrent ==
  trace # <<>> =>
    LET r == checkCode(args)
    IN /\ trace[1].sent
       /\ out.done
       /\ r.ok => out.res = <<>>
       /\ ~r.ok =>
            /\ Len(out.res) = 1
            /\ r.err = "TypeInferenceError" => out.res[1] = Diagnostic(r)

====
